---- MODULE Spec2Model ----
(***************************************************************************)
(* Vec4<T> of core/src/coords.rs: a four-field value type with elementwise *)
(* arithmetic, identity elements and structural equality.                  *)
(*                                                                         *)
(* The type parameter T is instantiated at i8, the narrowest primitive     *)
(* that satisfies every bound used in the file (Num + Default + PartialEq  *)
(* + Neg + the four *Assign traits) and whose division fails on a zero     *)
(* divisor, or at a wrapper of i8 with the same arithmetic and its own     *)
(* Default: the bounds do not tie Default::default() to Zero::zero().  A   *)
(* scalar operation yields [ok, v]: ok = FALSE is a panic of the scalar    *)
(* operation, v the value otherwise.                                       *)
(*                                                                         *)
(* impl Neg for Vec4<T> bounds T by Neg without Output = T, so its body    *)
(* does not type-check (-self.x is a <T as Neg>::Output where a T is       *)
(* needed): no build has the method, and the caller has no such call.      *)
(***************************************************************************)
EXTENDS Integers

VARIABLES
    a,                \* the caller's mutable instance (left operand)
    b,                \* a second instance (right operand)
    res,              \* what the last call returned
    op,               \* the last call
    status,           \* "ok", or "panic" once a call has unwound
    a0,               \* a when the last call began (a itself for a fresh binding)
    b0,               \* b when the last call began (b itself for a fresh binding)
    overflow_checks,  \* the build profile: TRUE panics on overflow, FALSE wraps
    T_default         \* Default::default() of the scalar type

vars == <<a, b, res, op, status, a0, b0, overflow_checks, T_default>>

----
\* Bounds of the exploration.

\* The right operand's fields handed to from() range over -1 .. MaxVal.
MaxVal == 1

----
\* The scalar type T = i8.

Bits == 8

T_MIN == 0 - 2^(Bits - 1)

T_MAX == 2^(Bits - 1) - 1

Wrap(n) == ((n + 2^(Bits - 1)) % 2^Bits) - 2^(Bits - 1)

Ok(n) == [ok |-> TRUE, v |-> n]

Panic == [ok |-> FALSE, v |-> 0]

\* An arithmetic result n of unbounded precision, as T delivers it.
Overflowing(n) ==
    IF T_MIN <= n /\ n <= T_MAX THEN Ok(n)
    ELSE IF overflow_checks THEN Panic
    ELSE Ok(Wrap(n))

T_add(p, q) == Overflowing(p + q)

T_sub(p, q) == Overflowing(p - q)

T_mul(p, q) == Overflowing(p * q)

Abs(n) == IF n < 0 THEN 0 - n ELSE n

\* Integer division truncates toward zero; a zero divisor and MIN / -1 panic
\* in every build profile.
T_div(p, q) ==
    IF q = 0 THEN Panic
    ELSE IF p = T_MIN /\ q = 0 - 1 THEN Panic
    ELSE IF (p < 0) = (q < 0) THEN Ok(Abs(p) \div Abs(q))
    ELSE Ok(0 - (Abs(p) \div Abs(q)))

T_zero == 0

T_one == 1

\* Default::default() of the wrapper type, which is not its zero.
WrapperDefault == 7

\* Default::default() of i8 and of the wrapper.
Defaults == {T_zero, WrapperDefault}

T_is_zero(p) == p = T_zero

T_is_one(p) == p = T_one

T_eq(p, q) == p = q

----
\* Vec4<T>.

Vec4(px, py, pz, pw) == [x |-> px, y |-> py, z |-> pz, w |-> pw]

\* A call that returned v, and a call that unwound leaving the target as v.
Returned(v) == [ok |-> TRUE, v |-> v]

Unwound(v) == [ok |-> FALSE, v |-> v]

\* A method whose impl the type checker rejects: no build yields a value.
Rejected(v) == [ok |-> FALSE, v |-> v]

\* new() with the last field left at one.
new_m == Vec4(T_default, T_default, T_default, T_one)

new == Vec4(T_default, T_default, T_default, T_default)

from(px, py, pz, pw) == Vec4(px, py, pz, pw)

zero == from(T_zero, T_zero, T_zero, T_zero)

\* set_zero() without its last store.
set_zero_m(self) ==
    LET s1 == [self EXCEPT !.x = T_zero]
        s2 == [s1 EXCEPT !.y = T_zero]
    IN  [s2 EXCEPT !.z = T_zero]

set_zero(self) ==
    LET s1 == [self EXCEPT !.x = T_zero]
        s2 == [s1 EXCEPT !.y = T_zero]
        s3 == [s2 EXCEPT !.z = T_zero]
    IN  [s3 EXCEPT !.w = T_zero]

\* is_zero() without its last conjunct.
is_zero_m(self) ==
    T_is_zero(self.x) /\ T_is_zero(self.y) /\ T_is_zero(self.z)

is_zero(self) ==
    T_is_zero(self.x) /\ T_is_zero(self.y) /\ T_is_zero(self.z) /\ T_is_zero(self.w)

\* one() with the last field taken from Zero::zero().
one_m == Vec4(T_one, T_one, T_one, T_zero)

one == Vec4(T_one, T_one, T_one, T_one)

set_one(self) ==
    LET s1 == [self EXCEPT !.x = T_one]
        s2 == [s1 EXCEPT !.y = T_one]
        s3 == [s2 EXCEPT !.z = T_one]
    IN  [s3 EXCEPT !.w = T_one]

is_one(self) ==
    T_is_one(self.x) /\ T_is_one(self.y) /\ T_is_one(self.z) /\ T_is_one(self.w)

\* A struct expression evaluates its fields in order; the first scalar panic
\* unwinds and no value is built.  The operands were moved in, so nothing of
\* them remains.
Build(rx, ry, rz, rw) ==
    IF rx.ok /\ ry.ok /\ rz.ok /\ rw.ok
    THEN Returned(Vec4(rx.v, ry.v, rz.v, rw.v))
    ELSE Unwound(new)

\* mul() as a running product: y reuses the x operand of self.
mul_m(self, rhs) ==
    Build(T_mul(self.x, rhs.x), T_mul(self.x, rhs.y),
          T_mul(self.z, rhs.z), T_mul(self.w, rhs.w))

mul(self, rhs) ==
    Build(T_mul(self.x, rhs.x), T_mul(self.y, rhs.y),
          T_mul(self.z, rhs.z), T_mul(self.w, rhs.w))

\* The four statements of an in-place operator run in order on the target;
\* a scalar panic unwinds with the earlier stores already made.
Stores(self, rx, ry, rz, rw) ==
    LET s1 == [self EXCEPT !.x = rx.v]
        s2 == [s1 EXCEPT !.y = ry.v]
        s3 == [s2 EXCEPT !.z = rz.v]
        s4 == [s3 EXCEPT !.w = rw.v]
    IN  IF ~rx.ok THEN Unwound(self)
        ELSE IF ~ry.ok THEN Unwound(s1)
        ELSE IF ~rz.ok THEN Unwound(s2)
        ELSE IF ~rw.ok THEN Unwound(s3)
        ELSE Returned(s4)

\* mul_assign() with w multiplied by the z field of rhs.
mul_assign_m(self, rhs) ==
    Stores(self, T_mul(self.x, rhs.x), T_mul(self.y, rhs.y),
                 T_mul(self.z, rhs.z), T_mul(self.w, rhs.z))

mul_assign(self, rhs) ==
    Stores(self, T_mul(self.x, rhs.x), T_mul(self.y, rhs.y),
                 T_mul(self.z, rhs.z), T_mul(self.w, rhs.w))

div(self, rhs) ==
    Build(T_div(self.x, rhs.x), T_div(self.y, rhs.y),
          T_div(self.z, rhs.z), T_div(self.w, rhs.w))

div_assign(self, rhs) ==
    Stores(self, T_div(self.x, rhs.x), T_div(self.y, rhs.y),
                 T_div(self.z, rhs.z), T_div(self.w, rhs.w))

add(self, rhs) ==
    Build(T_add(self.x, rhs.x), T_add(self.y, rhs.y),
          T_add(self.z, rhs.z), T_add(self.w, rhs.w))

add_assign(self, rhs) ==
    Stores(self, T_add(self.x, rhs.x), T_add(self.y, rhs.y),
                 T_add(self.z, rhs.z), T_add(self.w, rhs.w))

sub(self, rhs) ==
    Build(T_sub(self.x, rhs.x), T_sub(self.y, rhs.y),
          T_sub(self.z, rhs.z), T_sub(self.w, rhs.w))

\* sub_assign() with w reduced by the z field of rhs.
sub_assign_m(self, rhs) ==
    Stores(self, T_sub(self.x, rhs.x), T_sub(self.y, rhs.y),
                 T_sub(self.z, rhs.z), T_sub(self.w, rhs.z))

sub_assign(self, rhs) ==
    Stores(self, T_sub(self.x, rhs.x), T_sub(self.y, rhs.y),
                 T_sub(self.z, rhs.z), T_sub(self.w, rhs.w))

\* where T: Num + Default + PartialEq + Neg leaves <T as Neg>::Output
\* unrelated to T: each of x: -self.x, y: -self.y, z: -self.z, w: -self.w is
\* a type error, and the impl yields nothing for any operand.
neg(self) == Rejected(self)

\* eq() without its last conjunct.
eq_m(self, other) ==
    T_eq(self.x, other.x) /\ T_eq(self.y, other.y) /\ T_eq(self.z, other.z)

eq(self, other) ==
    T_eq(self.x, other.x) /\ T_eq(self.y, other.y)
        /\ T_eq(self.z, other.z) /\ T_eq(self.w, other.w)

clone(self) == Vec4(self.x, self.y, self.z, self.w)

\* The provided method of the derived Clone: *self = source.clone().
clone_from(self, source) == clone(source)

----
\* The caller: two instances, and one call at a time.

\* Fields handed to from() for the left operand: the least value of T and
\* the two identities.
LhsVals == {T_MIN, T_zero, T_one}

\* Fields handed to from() for the right operand.
RhsVals == (0 - 1) .. MaxVal

Within(v, S) == v.x \in S /\ v.y \in S /\ v.z \in S /\ v.w \in S

\* Arithmetic is explored on a left operand over LhsVals and a right operand
\* over RhsVals, or a right operand that is a copy of the left one.
Explored == Within(a, LhsVals) /\ (Within(b, RhsVals) \/ b = a)

NoValue == [kind |-> "unit", vec |-> new, bool |-> FALSE]

VecValue(v) == [kind |-> "vec", vec |-> v, bool |-> FALSE]

BoolValue(t) == [kind |-> "bool", vec |-> new, bool |-> t]

Init ==
    /\ overflow_checks \in BOOLEAN
    /\ T_default \in Defaults
    \* the wrapper is explored in the profile the tests are built with
    /\ T_default # T_zero => overflow_checks
    /\ a = new
    /\ b = new
    /\ res = VecValue(new)
    /\ op = "new"
    /\ status = "ok"
    /\ a0 = a
    /\ b0 = b

Running == status = "ok"

\* The caller binds its instances first and operates on them afterwards.
Binding == op \in {"new", "from", "zero", "one"}

\* let a = ctor; let b = ctor: a is bound first, and an instance is
\* rebound only while it still holds the value it was created with.
Bind(name, tgt, v) ==
    /\ Running
    /\ Binding
    /\ b = new
    /\ tgt = "a" => a = new
    /\ op' = name
    /\ res' = VecValue(v)
    /\ status' = "ok"
    /\ a' = IF tgt = "a" THEN v ELSE a
    /\ b' = IF tgt = "b" THEN v ELSE b
    /\ a0' = a'
    /\ b0' = b'
    /\ UNCHANGED <<overflow_checks, T_default>>

CallNew == \E tgt \in {"a", "b"} : Bind("new", tgt, new)

CallFrom ==
    \E tgt \in {"a", "b"} :
        \E px, py, pz, pw \in (IF tgt = "a" THEN LhsVals ELSE RhsVals) :
            Bind("from", tgt, from(px, py, pz, pw))

CallZero == \E tgt \in {"a", "b"} : Bind("zero", tgt, zero)

CallOne == \E tgt \in {"a", "b"} : Bind("one", tgt, one)

\* let b = a.clone()
CallClone ==
    /\ Running
    /\ op' = "clone"
    /\ res' = VecValue(clone(a))
    /\ status' = "ok"
    /\ b' = clone(a)
    /\ a0' = a
    /\ b0' = b'
    /\ UNCHANGED <<a, overflow_checks, T_default>>

\* a.clone_from(&b)
CallCloneFrom ==
    /\ Running
    /\ op' = "clone_from"
    /\ res' = NoValue
    /\ status' = "ok"
    /\ a' = clone_from(a, b)
    /\ a0' = a
    /\ b0' = b
    /\ UNCHANGED <<b, overflow_checks, T_default>>

\* a.set_zero() / a.set_one()
Reset(name, v) ==
    /\ Running
    /\ op' = name
    /\ res' = NoValue
    /\ status' = "ok"
    /\ a' = v
    /\ a0' = a
    /\ b0' = b
    /\ UNCHANGED <<b, overflow_checks, T_default>>

CallSetZero == Reset("set_zero", set_zero(a))

CallSetOne == Reset("set_one", set_one(a))

\* a.is_zero() / a.is_one() / a == b
Query(name, t) ==
    /\ Running
    /\ op' = name
    /\ res' = BoolValue(t)
    /\ status' = "ok"
    /\ a0' = a
    /\ b0' = b
    /\ UNCHANGED <<a, b, overflow_checks, T_default>>

CallIsZero == Query("is_zero", is_zero(a))

CallIsOne == Query("is_one", is_one(a))

CallEq == Query("eq", eq(a, b))

\* a.clone() op b.clone(): the operands are copies, the originals stay.
Pure(name, r) ==
    /\ Running
    /\ Explored
    /\ op' = name
    /\ res' = IF r.ok THEN VecValue(r.v) ELSE NoValue
    /\ status' = IF r.ok THEN "ok" ELSE "panic"
    /\ a0' = a
    /\ b0' = b
    /\ UNCHANGED <<a, b, overflow_checks, T_default>>

CallMul == Pure("mul", mul(clone(a), clone(b)))

CallDiv == Pure("div", div(clone(a), clone(b)))

CallAdd == Pure("add", add(clone(a), clone(b)))

CallSub == Pure("sub", sub(clone(a), clone(b)))

\* a op= b.clone()
InPlace(name, r) ==
    /\ Running
    /\ Explored
    /\ op' = name
    /\ res' = NoValue
    /\ status' = IF r.ok THEN "ok" ELSE "panic"
    /\ a' = r.v
    /\ a0' = a
    /\ b0' = b
    /\ UNCHANGED <<b, overflow_checks, T_default>>

CallMulAssign == InPlace("mul_assign", mul_assign(a, clone(b)))

CallDivAssign == InPlace("div_assign", div_assign(a, clone(b)))

CallAddAssign == InPlace("add_assign", add_assign(a, clone(b)))

CallSubAssign == InPlace("sub_assign", sub_assign(a, clone(b)))

Next ==
    \/ CallNew
    \/ CallFrom
    \/ CallZero
    \/ CallOne
    \/ CallClone
    \/ CallCloneFrom
    \/ CallSetZero
    \/ CallSetOne
    \/ CallIsZero
    \/ CallIsOne
    \/ CallEq
    \/ CallMul
    \/ CallDiv
    \/ CallAdd
    \/ CallSub
    \/ CallMulAssign
    \/ CallDivAssign
    \/ CallAddAssign
    \/ CallSubAssign

Spec == Init /\ [][Next]_vars

----
\* Properties.

Fields == {"x", "y", "z", "w"}

Called(name) == op = name

Completed(name) == op = name /\ status = "ok"

\* The quotient q of n by d, d nonzero, truncated toward zero.
IsTruncQuot(q, n, d) ==
    LET r == n - q * d
    IN  Abs(r) < Abs(d) /\ (r = 0 \/ (r < 0) = (n < 0))

\* C1: an in-place operator applied to a with argument b fails exactly when
\* the non-mutating operator fails on (a, b), and otherwise leaves a equal,
\* field by field, to the value the non-mutating operator returns; b may be
\* a copy of a.
AssignAgrees(name, r) ==
    Called(name) =>
        /\ (status = "ok") = r.ok
        /\ r.ok => \A i \in Fields : a[i] = r.v[i]

C1_CompoundAssignEquiv ==
    /\ AssignAgrees("add_assign", add(a0, b0))
    /\ AssignAgrees("sub_assign", sub(a0, b0))
    /\ AssignAgrees("mul_assign", mul(a0, b0))
    /\ AssignAgrees("div_assign", div(a0, b0))

\* C1 witness: add_assign has changed a, with b a copy of a.
C1_Witness ==
    /\ Completed("add_assign")
    /\ b0 = a0
    /\ a # a0

\* C2: when a divisor field of b is zero, div and div_assign fail and the
\* target of div_assign is left as it was, with no field already divided.
C2_DivFailsAsOneUnit ==
    ((Called("div") \/ Called("div_assign")) /\ \E i \in Fields : b0[i] = T_zero) =>
        /\ status = "panic"
        /\ a = a0

C4_Elementwise ==
    /\ Completed("add") =>
           /\ res.kind = "vec" /\ DOMAIN res.vec = Fields
           /\ \A i \in Fields : res.vec[i] = Wrap(a0[i] + b0[i])
    /\ Completed("sub") =>
           /\ res.kind = "vec" /\ DOMAIN res.vec = Fields
           /\ \A i \in Fields : res.vec[i] = Wrap(a0[i] - b0[i])
    /\ Completed("mul") =>
           /\ res.kind = "vec" /\ DOMAIN res.vec = Fields
           /\ \A i \in Fields : res.vec[i] = Wrap(a0[i] * b0[i])
    /\ Completed("div") =>
           /\ res.kind = "vec" /\ DOMAIN res.vec = Fields
           /\ \A i \in Fields :
                  b0[i] # T_zero /\ IsTruncQuot(res.vec[i], a0[i], b0[i])

\* C4 witness: mul returned a tuple whose fields differ from one another, on
\* operands whose sum of products is yet another number.
C4_Witness ==
    /\ Completed("mul")
    /\ res.vec.x # res.vec.y
    /\ res.vec.y # res.vec.z
    /\ res.vec.x # res.vec.z
    /\ a0.w # T_zero /\ b0.w # T_zero

\* C5: add(v, zero()) is v and mul(v, one()) is v.
C5_IdentityLaws ==
    /\ (Called("add") /\ b0 = zero) => (status = "ok" /\ eq(res.vec, a0))
    /\ (Called("mul") /\ b0 = one) => (status = "ok" /\ eq(res.vec, a0))

\* C5 witness: mul(v, one()) has returned for a v that is neither identity.
C5_Witness ==
    /\ Completed("mul")
    /\ b0 = one
    /\ a0 # zero /\ a0 # one
    /\ a0.w # T_zero

\* C6: is_zero holds exactly of the tuples whose four fields are the scalar
\* zero, is_one exactly of those whose four fields are the scalar one.
C6_IdentityPredicates ==
    /\ Called("is_zero") =>
           /\ res.kind = "bool"
           /\ res.bool = (\A i \in Fields : a0[i] = T_zero)
           /\ a0 = zero => res.bool
           /\ a0 = one => ~res.bool
    /\ Called("is_one") =>
           /\ res.kind = "bool"
           /\ res.bool = (\A i \in Fields : a0[i] = T_one)
           /\ a0 = one => res.bool
           /\ a0 = zero => ~res.bool

\* C6 witness: is_zero has answered no for a tuple whose fields are zero
\* except the last.
C6_Witness ==
    /\ Called("is_zero")
    /\ a0.x = T_zero /\ a0.y = T_zero /\ a0.z = T_zero /\ a0.w # T_zero
    /\ ~res.bool

\* C7: sub(v, v) is zero(), and sub_assign of v by a copy of v leaves v
\* equal to zero() with is_zero(v).
C7_AdditiveInverse ==
    /\ (Called("sub") /\ b0 = a0) => (status = "ok" /\ eq(res.vec, zero))
    /\ (Called("sub_assign") /\ b0 = a0) =>
           (status = "ok" /\ eq(a, zero) /\ is_zero(a))

\* C7 witness: sub_assign has run on a tuple with distinct nonzero fields
\* and a copy of it.
C7_Witness ==
    /\ Completed("sub_assign")
    /\ b0 = a0
    /\ a0.z # a0.w
    /\ a0.x # T_zero

\* C8: for every tuple v, each field of neg(v) is the scalar negation of
\* the same field of v, and neg(neg(v)) is v.
C8_NegInvolution ==
    Running =>
        /\ neg(a).ok
        /\ \A i \in Fields : neg(a).v[i] = Wrap(0 - a[i])
        /\ neg(neg(a).v).ok
        /\ eq(neg(neg(a).v).v, a)

\* The tuples the third operand of transitivity ranges over.
Others ==
    {Vec4(px, py, pz, pw) : px \in {a0.x, b0.x}, py \in {a0.y, b0.y},
                            pz \in {a0.z, b0.z}, pw \in {a0.w, b0.w}}

\* C9: a == b exactly when the four pairs of fields are equal; equality is
\* reflexive, symmetric and transitive.
C9_StructuralEq ==
    Called("eq") =>
        /\ res.kind = "bool"
        /\ res.bool = (\A i \in Fields : a0[i] = b0[i])
        /\ eq(a0, a0) /\ eq(b0, b0)
        /\ res.bool = eq(b0, a0)
        /\ \A c \in Others : (res.bool /\ eq(b0, c)) => eq(a0, c)
        /\ \A c \in Others : (eq(c, a0) /\ res.bool) => eq(c, b0)

\* C9 witness: == has answered no for two tuples that differ in the last
\* field only.
C9_Witness ==
    /\ Called("eq")
    /\ a0.x = b0.x /\ a0.y = b0.y /\ a0.z = b0.z /\ a0.w # b0.w
    /\ ~res.bool

InPlaceNames ==
    {"add_assign", "sub_assign", "mul_assign", "div_assign", "set_zero", "set_one"}

====
